---------------------------- MODULE Spec2Model ----------------------------
(***************************************************************************)
(* A model of matrix/rooms/room.go of gomuks: the per-room state table,    *)
(* the lazily computed caches derived from it (room name, topic, member    *)
(* roster, first other member) and the history fetching mutex.             *)
(***************************************************************************)
EXTENDS Integers, Sequences, FiniteSets, TLC

VARIABLES
    State,             \* room.State: event type -> (state key -> event)
    memberCache,       \* room.memberCache: MXID -> Member (nil and empty map alike: <<>>)
    firstMemberCache,  \* room.firstMemberCache
    nameCache,         \* room.nameCache
    topicCache,        \* room.topicCache
    panicked,          \* a nil pointer dereference has stopped the program
    PrevBatch,         \* room.PrevBatch
    UnreadMessages,    \* room.UnreadMessages
    Highlighted,       \* room.Highlighted
    HasNewMessages,    \* room.HasNewMessages
    fetchHistoryLock,  \* room.fetchHistoryLock: NilMutex or the mutex it points to
    locked,            \* for every sync.Mutex allocated so far, whether it is locked
    pc,                \* where each goroutine stands in LockHistory / UnlockHistory
    fatal,             \* the Go runtime has thrown "sync: unlock of unlocked mutex"
    serialized,        \* the callers run UpdateState and GetTitle one at a time
    writing,           \* the statement of UpdateState a goroutine stands at, and its event
    reading            \* the statement of updateNameCache a goroutine in GetTitle stands at

cacheVars == <<State, memberCache, firstMemberCache, nameCache, topicCache, panicked>>
notifyVars == <<PrevBatch, UnreadMessages, Highlighted, HasNewMessages>>
lockVars == <<fetchHistoryLock, locked, pc, fatal>>
raceVars == <<serialized, writing, reading>>
vars == <<cacheVars, notifyVars, lockVars, raceVars>>

---------------------------------------------------------------------------
(* Bounds of the model. *)

\* Users other than the session user that member events are about.
NumOthers == 2
\* Users other than the session user in the roster of SpecMembers.
NumRosterOthers == 3
\* Goroutines that fetch history in SpecLock.
NumContexts == 5
\* Goroutines that call LockHistory and UnlockHistory in SpecRelease.
NumCallers == 3

---------------------------------------------------------------------------
(* Content values: Go's interface{} values found in event.Content. *)

StringValue(s) == [kind |-> "string", str |-> s, arr |-> <<>>]
NumberValue == [kind |-> "number", str |-> "", arr |-> <<>>]
ArrayValue(a) == [kind |-> "array", str |-> "", arr |-> a]
NilValue == [kind |-> "nil", str |-> "", arr |-> <<>>]

\* content[key]: the nil interface when the key is missing.
ContentGet(content, key) == IF key \in DOMAIN content THEN content[key] ELSE NilValue

\* s, _ := v.(string): the zero value "" when v is no string.
AsString(v) == IF v.kind = "string" THEN v.str ELSE ""

\* a, _ := v.([]interface{}): the nil slice when v is no array.
AsArray(v) == IF v.kind = "array" THEN v.arr ELSE <<>>

EmptyMap == <<>>

\* Every order a Go range statement may walk the keys of a map in.
RECURSIVE IterationOrders(_)
IterationOrders(keys) ==
    IF keys = {} THEN {<<>>}
    ELSE UNION {{<<k>> \o rest : rest \in IterationOrders(keys \ {k})} : k \in keys}

---------------------------------------------------------------------------
(* The events the event pump delivers. *)

SessionUserID == "@me:hs"
UserNames == <<"alice", "bob", "carol", "dave">>
DisplayNames == <<"Alice", "Bob", "Carol", "Dave">>
OtherUser(i) == "@" \o UserNames[i] \o ":hs"
OtherUsers(n) == {OtherUser(i) : i \in 1..n}
DisplayNameOfUser(u) ==
    IF u = SessionUserID THEN "Me"
    ELSE DisplayNames[CHOOSE i \in 1..Len(UserNames) : OtherUser(i) = u]

NewEvent(type, stateKey, content) == [Type |-> type, StateKey |-> stateKey, Content |-> content]

\* The member events of the users, one for every membership value.
MemberEvents(users, membershipValues) ==
    {NewEvent("m.room.member", u,
              [membership |-> m, displayname |-> StringValue(DisplayNameOfUser(u))]) :
        u \in users, m \in membershipValues}
NameEvents(values) == {NewEvent("m.room.name", "", [name |-> v]) : v \in values}
CanonicalAliasEvents(values) ==
    {NewEvent("m.room.canonical_alias", "", [alias |-> v]) : v \in values}
AliasesEvents(stateKey, values) ==
    {NewEvent("m.room.aliases", stateKey, [aliases |-> v]) : v \in values}
TopicEvents(values) == {NewEvent("m.room.topic", "", [topic |-> v]) : v \in values}
\* An event whose content lacks the field its type is read for.
BareEvent(type) == NewEvent(type, "", EmptyMap)

---------------------------------------------------------------------------
(* The room as a value, so that the methods below are functions of it. *)

ThisRoom ==
    [State |-> State, memberCache |-> memberCache, firstMemberCache |-> firstMemberCache,
     nameCache |-> nameCache, topicCache |-> topicCache, panicked |-> panicked]

Install(room) ==
    /\ State' = room.State
    /\ memberCache' = room.memberCache
    /\ firstMemberCache' = room.firstMemberCache
    /\ nameCache' = room.nameCache
    /\ topicCache' = room.topicCache
    /\ panicked' = room.panicked

\* UpdateState without the m.room.member case of its switch.
UpdateStateOfKeepingMembers(room, event) ==
    LET inner == IF event.Type \in DOMAIN room.State THEN room.State[event.Type] ELSE EmptyMap
        cleared ==
            CASE event.Type \in {"m.room.name", "m.room.canonical_alias", "m.room.alias"} ->
                    [room EXCEPT !.nameCache = ""]
              [] event.Type = "m.room.topic" ->
                    [room EXCEPT !.topicCache = ""]
              [] OTHER -> room
        stored == [k \in DOMAIN inner \cup {event.StateKey} |->
                      IF k = event.StateKey THEN event ELSE inner[k]]
    IN [cleared EXCEPT !.State =
            [t \in DOMAIN room.State \cup {event.Type} |->
                IF t = event.Type THEN stored ELSE room.State[t]]]

\* UpdateState making a new inner map whether or not one exists.
UpdateStateOfFreshMap(room, event) ==
    LET cleared ==
            CASE event.Type = "m.room.member" ->
                    [room EXCEPT !.memberCache = EmptyMap, !.firstMemberCache = "", !.nameCache = ""]
              [] event.Type \in {"m.room.name", "m.room.canonical_alias", "m.room.alias"} ->
                    [room EXCEPT !.nameCache = ""]
              [] event.Type = "m.room.topic" ->
                    [room EXCEPT !.topicCache = ""]
              [] OTHER -> room
        stored == [k \in {event.StateKey} |-> event]
    IN [cleared EXCEPT !.State =
            [t \in DOMAIN room.State \cup {event.Type} |->
                IF t = event.Type THEN stored ELSE room.State[t]]]

\* UpdateState without the m.room.alias case of its switch.
UpdateStateOfNoAliasCase(room, event) ==
    LET inner == IF event.Type \in DOMAIN room.State THEN room.State[event.Type] ELSE EmptyMap
        cleared ==
            CASE event.Type = "m.room.member" ->
                    [room EXCEPT !.memberCache = EmptyMap, !.firstMemberCache = "", !.nameCache = ""]
              [] event.Type \in {"m.room.name", "m.room.canonical_alias"} ->
                    [room EXCEPT !.nameCache = ""]
              [] event.Type = "m.room.topic" ->
                    [room EXCEPT !.topicCache = ""]
              [] OTHER -> room
        stored == [k \in DOMAIN inner \cup {event.StateKey} |->
                      IF k = event.StateKey THEN event ELSE inner[k]]
    IN [cleared EXCEPT !.State =
            [t \in DOMAIN room.State \cup {event.Type} |->
                IF t = event.Type THEN stored ELSE room.State[t]]]

\* UpdateState: the inner map is made when missing, the caches reading the
\* event's type are cleared, and the event replaces the one at its type and key.
UpdateStateOf(room, event) ==
    LET inner == IF event.Type \in DOMAIN room.State THEN room.State[event.Type] ELSE EmptyMap
        cleared ==
            CASE event.Type = "m.room.member" ->
                    [room EXCEPT !.memberCache = EmptyMap, !.firstMemberCache = "", !.nameCache = ""]
              [] event.Type \in {"m.room.name", "m.room.canonical_alias", "m.room.alias"} ->
                    [room EXCEPT !.nameCache = ""]
              [] event.Type = "m.room.topic" ->
                    [room EXCEPT !.topicCache = ""]
              [] OTHER -> room
        stored == [k \in DOMAIN inner \cup {event.StateKey} |->
                      IF k = event.StateKey THEN event ELSE inner[k]]
    IN [cleared EXCEPT !.State =
            [t \in DOMAIN room.State \cup {event.Type} |->
                IF t = event.Type THEN stored ELSE room.State[t]]]

\* GetStateEvents: the nil map (empty here) when no event of the type was stored.
GetStateEvents(room, eventType) ==
    IF eventType \in DOMAIN room.State THEN room.State[eventType] ELSE EmptyMap

\* Whether GetStateEvent returns an event rather than nil.
HasStateEvent(room, eventType, stateKey) == stateKey \in DOMAIN GetStateEvents(room, eventType)

\* GetStateEvent, where it returns an event.
GetStateEvent(room, eventType, stateKey) == GetStateEvents(room, eventType)[stateKey]

\* GetTopic making the inner map of m.room.topic when it finds none.
GetTopicOfMakingMap(room) ==
    IF Len(room.topicCache) = 0 /\ HasStateEvent(room, "m.room.topic", "")
    THEN [room EXCEPT !.topicCache =
            AsString(ContentGet(GetStateEvent(room, "m.room.topic", "").Content, "topic"))]
    ELSE [room EXCEPT !.State =
            [t \in DOMAIN room.State \cup {"m.room.topic"} |->
                IF t \in DOMAIN room.State THEN room.State[t] ELSE EmptyMap]]

\* GetTopic up to its return statement, which returns topicCache.
GetTopicOf(room) ==
    IF Len(room.topicCache) = 0 /\ HasStateEvent(room, "m.room.topic", "")
    THEN [room EXCEPT !.topicCache =
            AsString(ContentGet(GetStateEvent(room, "m.room.topic", "").Content, "topic"))]
    ELSE room

updateNameFromNameEvent(room) ==
    IF HasStateEvent(room, "m.room.name", "")
    THEN [room EXCEPT !.nameCache =
            AsString(ContentGet(GetStateEvent(room, "m.room.name", "").Content, "name"))]
    ELSE room

updateNameFromCanonicalAlias(room) ==
    IF HasStateEvent(room, "m.room.canonical_alias", "")
    THEN [room EXCEPT !.nameCache =
            AsString(ContentGet(GetStateEvent(room, "m.room.canonical_alias", "").Content, "alias"))]
    ELSE room

\* The loop of updateNameFromAliases from position i of the order the events
\* are walked in: the first event with a non-empty array sets the name and
\* ends the loop.
RECURSIVE aliasesLoop(_, _, _)
aliasesLoop(room, order, i) ==
    IF i > Len(order) THEN room
    ELSE LET event == GetStateEvents(room, "m.room.aliases")[order[i]]
             aliases == AsArray(ContentGet(event.Content, "aliases"))
         IN IF Len(aliases) > 0
            THEN [room EXCEPT !.nameCache = AsString(aliases[1])]
            ELSE aliasesLoop(room, order, i + 1)

updateNameFromAliases(room, order) == aliasesLoop(room, order, 1)

\* eventToRoomMember: the Member of a member event.
eventToRoomMember(userID, event) ==
    [UserID |-> userID,
     DisplayName |-> AsString(ContentGet(event.Content, "displayname")),
     Membership |-> AsString(ContentGet(event.Content, "membership"))]

\* The loop of createMemberCache from position i of the order the events are
\* walked in, on the room whose firstMemberCache was reset and whose
\* memberCache field stands for the local map being filled.
RECURSIVE memberLoop(_, _, _)
memberLoop(room, order, i) ==
    IF i > Len(order) THEN room
    ELSE LET userID == order[i]
             member == eventToRoomMember(userID, GetStateEvents(room, "m.room.member")[userID])
             first == IF Len(room.firstMemberCache) = 0 /\ userID # SessionUserID
                      THEN userID ELSE room.firstMemberCache
             cache == IF member.Membership # "leave"
                      THEN [u \in DOMAIN room.memberCache \cup {member.UserID} |->
                               IF u = member.UserID THEN member ELSE room.memberCache[u]]
                      ELSE room.memberCache
         IN memberLoop([room EXCEPT !.firstMemberCache = first, !.memberCache = cache], order, i + 1)

createMemberCache(room, order) ==
    memberLoop([room EXCEPT !.firstMemberCache = "", !.memberCache = EmptyMap], order, 1)

\* GetMembers up to its return statement, which returns memberCache.
GetMembersOf(room, order) ==
    IF Cardinality(DOMAIN room.memberCache) = 0 THEN createMemberCache(room, order) ELSE room

\* GetMember up to its lookup of userID in memberCache.
GetMemberOf(room, order) ==
    IF Cardinality(DOMAIN room.memberCache) = 0 THEN createMemberCache(room, order) ELSE room

\* members[room.firstMemberCache].DisplayName dereferences the nil *Member
\* the lookup yields for a key the map does not hold.
updateNameFromMembers(room, order) ==
    LET got == GetMembersOf(room, order)
        members == got.memberCache
        n == Cardinality(DOMAIN members)
    IN IF n <= 1 THEN [got EXCEPT !.nameCache = "Empty room"]
       ELSE IF got.firstMemberCache \notin DOMAIN members THEN [got EXCEPT !.panicked = TRUE]
       ELSE IF n = 2 THEN [got EXCEPT !.nameCache = members[got.firstMemberCache].DisplayName]
       ELSE [got EXCEPT !.nameCache =
                members[got.firstMemberCache].DisplayName \o " and " \o ToString(n - 2) \o " others"]

\* updateNameCache asking the canonical alias before the name event.
updateNameCacheAliasFirst(room, aliasOrder, memberOrder) ==
    LET r1 == IF Len(room.nameCache) = 0 THEN updateNameFromCanonicalAlias(room) ELSE room
        r2 == IF Len(r1.nameCache) = 0 THEN updateNameFromNameEvent(r1) ELSE r1
        r3 == IF Len(r2.nameCache) = 0 THEN updateNameFromAliases(r2, aliasOrder) ELSE r2
    IN IF Len(r3.nameCache) = 0 THEN updateNameFromMembers(r3, memberOrder) ELSE r3

\* updateNameCache without the test that the cache is empty.
updateNameCacheUnguarded(room, aliasOrder, memberOrder) ==
    LET r1 == updateNameFromNameEvent([room EXCEPT !.nameCache = ""])
        r2 == IF Len(r1.nameCache) = 0 THEN updateNameFromCanonicalAlias(r1) ELSE r1
        r3 == IF Len(r2.nameCache) = 0 THEN updateNameFromAliases(r2, aliasOrder) ELSE r2
    IN IF Len(r3.nameCache) = 0 THEN updateNameFromMembers(r3, memberOrder) ELSE r3

updateNameCache(room, aliasOrder, memberOrder) ==
    LET r1 == IF Len(room.nameCache) = 0 THEN updateNameFromNameEvent(room) ELSE room
        r2 == IF Len(r1.nameCache) = 0 THEN updateNameFromCanonicalAlias(r1) ELSE r1
        r3 == IF Len(r2.nameCache) = 0 THEN updateNameFromAliases(r2, aliasOrder) ELSE r2
    IN IF Len(r3.nameCache) = 0 THEN updateNameFromMembers(r3, memberOrder) ELSE r3

\* GetTitle up to its return statement, which returns nameCache.
GetTitleOf(room, aliasOrder, memberOrder) == updateNameCache(room, aliasOrder, memberOrder)

AliasOrders(room) == IterationOrders(DOMAIN GetStateEvents(room, "m.room.aliases"))
MemberOrders(room) == IterationOrders(DOMAIN GetStateEvents(room, "m.room.member"))

---------------------------------------------------------------------------
(* The operations on the room's state and caches, each run as a whole. *)

\* NewRoom: gomatrix.NewRoom makes the empty State map, the other fields are
\* zero values and the mutex is allocated unlocked.
InitCaches ==
    /\ State = EmptyMap
    /\ memberCache = EmptyMap
    /\ firstMemberCache = ""
    /\ nameCache = ""
    /\ topicCache = ""
    /\ panicked = FALSE

UpdateState(event) ==
    /\ ~panicked
    /\ Install(UpdateStateOf(ThisRoom, event))
    /\ UNCHANGED <<notifyVars, lockVars, raceVars>>

GetTopic ==
    /\ ~panicked
    /\ Install(GetTopicOf(ThisRoom))
    /\ UNCHANGED <<notifyVars, lockVars, raceVars>>

\* The rooms a call may leave behind, one for every order the maps are walked in.
GetTitleResults(room) ==
    {GetTitleOf(room, ao, mo) : ao \in AliasOrders(room), mo \in MemberOrders(room)}
GetMembersResults(room) == {GetMembersOf(room, mo) : mo \in MemberOrders(room)}
GetMemberResults(room) == {GetMemberOf(room, mo) : mo \in MemberOrders(room)}

GetTitle ==
    /\ ~panicked
    /\ \E room \in GetTitleResults(ThisRoom) : Install(room)
    /\ UNCHANGED <<notifyVars, lockVars, raceVars>>

GetMembers ==
    /\ ~panicked
    /\ \E room \in GetMembersResults(ThisRoom) : Install(room)
    /\ UNCHANGED <<notifyVars, lockVars, raceVars>>

GetMember(userID) ==
    /\ ~panicked
    /\ \E room \in GetMemberResults(ThisRoom) : Install(room)
    /\ UNCHANGED <<notifyVars, lockVars, raceVars>>

GetSessionOwner == GetMember(SessionUserID)

\* GetStateEvent and GetStateEvents, called from outside: lookups that
\* write nothing.
CallGetStateEvent(eventType, stateKey) ==
    /\ ~panicked
    /\ UNCHANGED vars

CallGetStateEvents(eventType) ==
    /\ ~panicked
    /\ UNCHANGED vars

\* No UpdateState and no GetTitle is under way; the operations above run as
\* a whole, one at a time.
InitRace ==
    /\ serialized = TRUE
    /\ writing = [at |-> "idle"]
    /\ reading = "idle"

---------------------------------------------------------------------------
(* UpdateState and GetTitle one statement at a time, in two goroutines     *)
(* that nothing in the room keeps apart. `writing` is at "idle" outside    *)
(* UpdateState and at "make", "switch" and "store" before its three         *)
(* statements; `reading` is "idle" outside GetTitle, at "name",            *)
(* "canonical", "aliases" and "members" before the four if statements of    *)
(* updateNameCache and at "return" before the return of GetTitle.          *)

\* UpdateState, the if statement of lines 88 to 91.
makeInnerMap(room, event) ==
    IF event.Type \in DOMAIN room.State THEN room
    ELSE [room EXCEPT !.State =
            [t \in DOMAIN room.State \cup {event.Type} |->
                IF t = event.Type THEN EmptyMap ELSE room.State[t]]]

\* UpdateState, the switch statement of lines 92 to 105.
clearCaches(room, event) ==
    CASE event.Type = "m.room.member" ->
            [room EXCEPT !.memberCache = EmptyMap, !.firstMemberCache = "", !.nameCache = ""]
      [] event.Type \in {"m.room.name", "m.room.canonical_alias", "m.room.alias"} ->
            [room EXCEPT !.nameCache = ""]
      [] event.Type = "m.room.topic" ->
            [room EXCEPT !.topicCache = ""]
      [] OTHER -> room

\* UpdateState, the assignment of line 106.
storeEvent(room, event) ==
    LET inner == room.State[event.Type]
    IN [room EXCEPT !.State[event.Type] =
            [k \in DOMAIN inner \cup {event.StateKey} |->
                IF k = event.StateKey THEN event ELSE inner[k]]]

\* updateNameCache, the if statement the reader stands at.
updateNameCacheStatement(room, at, aliasOrder, memberOrder) ==
    IF Len(room.nameCache) # 0 THEN room
    ELSE CASE at = "name" -> updateNameFromNameEvent(room)
           [] at = "canonical" -> updateNameFromCanonicalAlias(room)
           [] at = "aliases" -> updateNameFromAliases(room, aliasOrder)
           [] at = "members" -> updateNameFromMembers(room, memberOrder)

NextStatement(at) ==
    CASE at = "name" -> "canonical"
      [] at = "canonical" -> "aliases"
      [] at = "aliases" -> "members"
      [] at = "members" -> "return"

\* Whether the callers keep UpdateState and GetTitle apart is theirs to
\* decide; the room starts as NewRoom leaves it.
InitRaceAny ==
    /\ serialized \in BOOLEAN
    /\ writing = [at |-> "idle"]
    /\ reading = "idle"

\* A goroutine calls UpdateState; callers that serialize wait for GetTitle
\* to return.
UpdateStateCall(event) ==
    /\ ~panicked
    /\ writing.at = "idle"
    /\ serialized => reading = "idle"
    /\ writing' = [at |-> "make", event |-> event]
    /\ UNCHANGED <<cacheVars, notifyVars, lockVars, serialized, reading>>

UpdateStateMake ==
    /\ ~panicked
    /\ writing.at = "make"
    /\ Install(makeInnerMap(ThisRoom, writing.event))
    /\ writing' = [writing EXCEPT !.at = "switch"]
    /\ UNCHANGED <<notifyVars, lockVars, serialized, reading>>

UpdateStateSwitch ==
    /\ ~panicked
    /\ writing.at = "switch"
    /\ Install(clearCaches(ThisRoom, writing.event))
    /\ writing' = [writing EXCEPT !.at = "store"]
    /\ UNCHANGED <<notifyVars, lockVars, serialized, reading>>

UpdateStateStore ==
    /\ ~panicked
    /\ writing.at = "store"
    /\ Install(storeEvent(ThisRoom, writing.event))
    /\ writing' = [at |-> "idle"]
    /\ UNCHANGED <<notifyVars, lockVars, serialized, reading>>

\* A goroutine calls GetTitle; callers that serialize wait for UpdateState
\* to return.
GetTitleCall ==
    /\ ~panicked
    /\ reading = "idle"
    /\ serialized => writing.at = "idle"
    /\ reading' = "name"
    /\ UNCHANGED <<cacheVars, notifyVars, lockVars, serialized, writing>>

\* The rooms the if statement may leave behind, one for every order the maps
\* are walked in.
StatementResults(room, at) ==
    {updateNameCacheStatement(room, at, ao, mo) :
        ao \in AliasOrders(room), mo \in MemberOrders(room)}

GetTitleStatement ==
    /\ ~panicked
    /\ reading \in {"name", "canonical", "aliases", "members"}
    /\ \E room \in StatementResults(ThisRoom, reading) : Install(room)
    /\ reading' = NextStatement(reading)
    /\ UNCHANGED <<notifyVars, lockVars, serialized, writing>>

GetTitleReturn ==
    /\ ~panicked
    /\ reading = "return"
    /\ reading' = "idle"
    /\ UNCHANGED <<cacheVars, notifyVars, lockVars, serialized, writing>>

---------------------------------------------------------------------------
(* The notification fields. *)

InitNotify ==
    /\ PrevBatch = ""
    /\ UnreadMessages = 0
    /\ Highlighted = FALSE
    /\ HasNewMessages = FALSE

\* The exported fields hold what the code using the room wrote to them.
MaxUnread == 3
PrevBatches == {"", "s72_3"}

InitNotifyAny ==
    /\ PrevBatch \in PrevBatches
    /\ UnreadMessages \in 0..MaxUnread
    /\ Highlighted \in BOOLEAN
    /\ HasNewMessages \in BOOLEAN

\* MarkRead without its last assignment.
MarkReadKeepingNew ==
    /\ ~panicked
    /\ UnreadMessages' = 0
    /\ Highlighted' = FALSE
    /\ UNCHANGED <<HasNewMessages, PrevBatch, cacheVars, lockVars, raceVars>>

MarkRead ==
    /\ ~panicked
    /\ UnreadMessages' = 0
    /\ Highlighted' = FALSE
    /\ HasNewMessages' = FALSE
    /\ UNCHANGED <<PrevBatch, cacheVars, lockVars, raceVars>>

---------------------------------------------------------------------------
(* The history fetching mutex, one statement of LockHistory and            *)
(* UnlockHistory at a time. A goroutine is "idle" outside both, at          *)
(* "create" and "lock" inside LockHistory, "fetching" between the two calls *)
(* and at "unlock" inside UnlockHistory.                                    *)

Contexts == 1..NumContexts

\* The nil *sync.Mutex.
NilMutex == -1
\* The mutex NewRoom allocates; the one goroutine c allocates is c.
NewRoomMutex == 0

\* The guard of a room shared by the goroutines: NewRoom makes
\* fetchHistoryLock point to a new, unlocked mutex, and a Room literal leaves
\* it nil.
InitGuard(goroutines, mutex) ==
    /\ fetchHistoryLock = mutex
    /\ locked = [m \in {mutex} \ {NilMutex} |-> FALSE]
    /\ pc = [c \in goroutines |-> "idle"]
    /\ fatal = FALSE

InitLock == InitGuard(Contexts, NewRoomMutex)

\* LockHistory, the test of line 64.
LockHistoryCheck(c) ==
    /\ ~fatal
    /\ pc[c] = "idle"
    /\ pc' = [pc EXCEPT ![c] = IF fetchHistoryLock = NilMutex THEN "create" ELSE "lock"]
    /\ UNCHANGED <<fetchHistoryLock, locked, fatal, cacheVars, notifyVars, raceVars>>

\* LockHistory, the assignment of line 65.
LockHistoryCreate(c) ==
    /\ ~fatal
    /\ pc[c] = "create"
    /\ fetchHistoryLock' = c
    /\ locked' = [m \in DOMAIN locked \cup {c} |-> IF m = c THEN FALSE ELSE locked[m]]
    /\ pc' = [pc EXCEPT ![c] = "lock"]
    /\ UNCHANGED <<fatal, cacheVars, notifyVars, raceVars>>

\* A Lock that does not wait for the mutex to be unlocked.
MutexLockNoWait(c) ==
    /\ locked' = [locked EXCEPT ![fetchHistoryLock] = TRUE]
    /\ pc' = [pc EXCEPT ![c] = "fetching"]

\* LockHistory, line 67: Lock returns once the mutex the field points to is
\* unlocked, and locks it.
MutexLock(c) ==
    /\ ~locked[fetchHistoryLock]
    /\ locked' = [locked EXCEPT ![fetchHistoryLock] = TRUE]
    /\ pc' = [pc EXCEPT ![c] = "fetching"]

LockHistoryLock(c) ==
    /\ ~fatal
    /\ pc[c] = "lock"
    /\ MutexLock(c)
    /\ UNCHANGED <<fetchHistoryLock, fatal, cacheVars, notifyVars, raceVars>>

\* UnlockHistory, the test of line 73, called by a goroutine standing at `at`.
UnlockHistoryCheck(c, at) ==
    /\ ~fatal
    /\ pc[c] = at
    /\ pc' = [pc EXCEPT ![c] = IF fetchHistoryLock # NilMutex THEN "unlock" ELSE "idle"]
    /\ UNCHANGED <<fetchHistoryLock, locked, fatal, cacheVars, notifyVars, raceVars>>

\* An Unlock that returns when the mutex is not locked.
MutexUnlockSilent(c) ==
    /\ locked' = [locked EXCEPT ![fetchHistoryLock] = FALSE]
    /\ pc' = [pc EXCEPT ![c] = "idle"]
    /\ UNCHANGED fatal

\* An Unlock that returns and leaves the mutex locked.
MutexUnlockKeepingLocked(c) ==
    /\ pc' = [pc EXCEPT ![c] = "idle"]
    /\ UNCHANGED <<locked, fatal>>

\* sync.Mutex.Unlock: unlocking an unlocked mutex is the run-time's fatal
\* error "sync: unlock of unlocked mutex", which ends the program.
MutexUnlock(c) ==
    IF locked[fetchHistoryLock]
    THEN /\ locked' = [locked EXCEPT ![fetchHistoryLock] = FALSE]
         /\ pc' = [pc EXCEPT ![c] = "idle"]
         /\ UNCHANGED fatal
    ELSE /\ fatal' = TRUE
         /\ UNCHANGED <<locked, pc>>

\* UnlockHistory, line 74.
UnlockHistoryUnlock(c) ==
    /\ ~fatal
    /\ pc[c] = "unlock"
    /\ MutexUnlock(c)
    /\ UNCHANGED <<fetchHistoryLock, cacheVars, notifyVars, raceVars>>

---------------------------------------------------------------------------
(* Spec: the room's state and caches under events of every type a cache    *)
(* reads.                                                                  *)

Users == {SessionUserID} \cup OtherUsers(NumOthers)

Events ==
    MemberEvents(Users, {StringValue("join"), StringValue("leave")})
    \cup {NewEvent("m.room.member", OtherUser(1), [membership |-> NumberValue])}
    \cup NameEvents({StringValue("Lobby"), NumberValue})
    \cup CanonicalAliasEvents({StringValue("#main:hs")})
    \cup AliasesEvents("hs", {ArrayValue(<<StringValue("#one:hs"), StringValue("#uno:hs")>>),
                              ArrayValue(<<>>)})
    \cup AliasesEvents("other", {ArrayValue(<<StringValue("#two:other")>>)})
    \cup TopicEvents({StringValue("Welcome"), NumberValue})

Init == InitCaches /\ InitNotify /\ InitLock /\ InitRace

Next ==
    \/ \E event \in Events : UpdateState(event)
    \/ GetTopic
    \/ GetTitle
    \/ GetMembers
    \/ \E userID \in Users : GetMember(userID)
    \/ GetSessionOwner

Spec == Init /\ [][Next]_vars

---------------------------------------------------------------------------
(* SpecTitle: the room name under well-formed and malformed name, alias    *)
(* and aliases events.                                                     *)

TitleUsers == {SessionUserID, OtherUser(1)}

TitleEvents ==
    MemberEvents(TitleUsers, {StringValue("join"), StringValue("leave")})
    \cup NameEvents({StringValue("Lobby"), StringValue(""), NumberValue})
    \cup {BareEvent("m.room.name")}
    \cup CanonicalAliasEvents({StringValue("#main:hs"), StringValue(""), NumberValue})
    \cup AliasesEvents("hs", {ArrayValue(<<StringValue("#one:hs"), StringValue("#uno:hs")>>),
                              ArrayValue(<<>>), ArrayValue(<<NumberValue>>)})
    \cup AliasesEvents("other", {ArrayValue(<<StringValue("#two:other")>>), NumberValue})

NextTitle ==
    \/ \E event \in TitleEvents : UpdateState(event)
    \/ GetTitle
    \/ GetMembers

SpecTitle == Init /\ [][NextTitle]_vars

---------------------------------------------------------------------------
(* SpecMembers: the member roster and the room name computed from it,      *)
(* under member events of every membership.                                *)

RosterUsers == {SessionUserID} \cup OtherUsers(NumRosterOthers)

Memberships == {"join", "invite", "leave", "ban", "knock"}

RosterEvents == MemberEvents(RosterUsers, {StringValue(m) : m \in Memberships})

NextMembers ==
    \/ \E event \in RosterEvents : UpdateState(event)
    \/ GetTitle
    \/ GetMembers
    \/ \E userID \in RosterUsers : GetMember(userID)
    \/ GetSessionOwner

SpecMembers == Init /\ [][NextMembers]_vars

---------------------------------------------------------------------------
(* SpecLock: goroutines that each lock, fetch and unlock, on a room built  *)
(* by NewRoom.                                                             *)

NextLock ==
    \E c \in Contexts :
        \/ LockHistoryCheck(c)
        \/ LockHistoryLock(c)
        \/ UnlockHistoryCheck(c, "fetching")
        \/ UnlockHistoryUnlock(c)

SpecLock == Init /\ [][NextLock]_vars

\* SpecLock under fair scheduling: a goroutine that fetches goes on to call
\* UnlockHistory and a goroutine inside UnlockHistory goes on to its end
\* (weak fairness); a goroutine waiting in Lock gets the mutex if it is
\* unlocked again and again (strong fairness: a sync.Mutex hands the mutex to
\* the longest waiting goroutine once that one has waited for a millisecond).
\* No goroutine has to call LockHistory.
FairLock ==
    \A c \in Contexts :
        /\ WF_vars(UnlockHistoryCheck(c, "fetching"))
        /\ WF_vars(UnlockHistoryUnlock(c))
        /\ SF_vars(LockHistoryLock(c))

SpecLockFair == Init /\ [][NextLock]_vars /\ FairLock

---------------------------------------------------------------------------
(* SpecRelease: goroutines that may also call UnlockHistory without having *)
(* called LockHistory, on a room built by NewRoom or as a Room literal.    *)

Callers == 1..NumCallers

InitRelease ==
    /\ InitCaches /\ InitNotify /\ InitRace
    /\ InitGuard(Callers, NewRoomMutex) \/ InitGuard(Callers, NilMutex)

NextRelease ==
    \E c \in Callers :
        \/ LockHistoryCheck(c)
        \/ LockHistoryCreate(c)
        \/ LockHistoryLock(c)
        \/ UnlockHistoryCheck(c, "fetching")
        \/ UnlockHistoryCheck(c, "idle")
        \/ UnlockHistoryUnlock(c)

SpecRelease == InitRelease /\ [][NextRelease]_vars

---------------------------------------------------------------------------
(* SpecLazy: goroutines that each lock, fetch and unlock, on a room built  *)
(* by NewRoom or as a Room literal, whose mutex the first LockHistory      *)
(* makes.                                                                  *)

NextLazy ==
    \E c \in Callers :
        \/ LockHistoryCheck(c)
        \/ LockHistoryCreate(c)
        \/ LockHistoryLock(c)
        \/ UnlockHistoryCheck(c, "fetching")
        \/ UnlockHistoryUnlock(c)

SpecLazy == InitRelease /\ [][NextLazy]_vars

---------------------------------------------------------------------------
(* SpecRace: one goroutine in UpdateState and one in GetTitle, statement   *)
(* by statement, with callers that serialize the two or do not.            *)

RaceEvents ==
    NameEvents({StringValue("Lobby"), StringValue("Plaza")})
    \cup AliasesEvents("hs", {ArrayValue(<<StringValue("#one:hs"), StringValue("#uno:hs")>>)})
    \cup MemberEvents({OtherUser(1)}, {StringValue("join")})

InitRaceSpec == InitCaches /\ InitNotify /\ InitLock /\ InitRaceAny

NextRace ==
    \/ \E event \in RaceEvents : UpdateStateCall(event)
    \/ UpdateStateMake
    \/ UpdateStateSwitch
    \/ UpdateStateStore
    \/ GetTitleCall
    \/ GetTitleStatement
    \/ GetTitleReturn

SpecRace == InitRaceSpec /\ [][NextRace]_vars

---------------------------------------------------------------------------
(* SpecFrame: the state table and the caches under events of every type,   *)
(* those no cache reads included.                                          *)

FrameUsers == {SessionUserID, OtherUser(1)}

FrameEvents ==
    MemberEvents(FrameUsers, {StringValue("join"), StringValue("leave")})
    \cup NameEvents({StringValue("Lobby"), NumberValue})
    \cup CanonicalAliasEvents({StringValue("#main:hs")})
    \cup AliasesEvents("hs", {ArrayValue(<<StringValue("#one:hs"), StringValue("#uno:hs")>>),
                              ArrayValue(<<>>)})
    \cup TopicEvents({StringValue("Welcome"), NumberValue})
    \cup {BareEvent("m.room.alias"), BareEvent("m.room.power_levels")}

FrameTypes == {event.Type : event \in FrameEvents} \cup {"m.room.create"}
FrameKeys == {event.StateKey : event \in FrameEvents} \cup {"other"}

\* What the lookups are called with: a type and a key that events carry, and
\* a type and a key that none carries.
LookupTypes == {"m.room.member", "m.room.create"}
LookupKeys == {SessionUserID, "other"}

NextFrame ==
    \/ \E event \in FrameEvents : UpdateState(event)
    \/ GetTopic
    \/ GetTitle
    \/ GetMembers
    \/ \E userID \in FrameUsers : GetMember(userID)
    \/ GetSessionOwner
    \/ \E eventType \in LookupTypes, stateKey \in LookupKeys : CallGetStateEvent(eventType, stateKey)
    \/ \E eventType \in LookupTypes : CallGetStateEvents(eventType)

SpecFrame == Init /\ [][NextFrame]_vars

---------------------------------------------------------------------------
(* SpecNotify: a room whose notification fields hold any values, under     *)
(* MarkRead, a few events and every read accessor.                         *)

NotifyUsers == {SessionUserID, OtherUser(1)}

NotifyEvents ==
    MemberEvents(NotifyUsers, {StringValue("join")})
    \cup NameEvents({StringValue("Lobby")})
    \cup TopicEvents({StringValue("Welcome")})

InitAnyNotify == InitCaches /\ InitNotifyAny /\ InitLock /\ InitRace

ReadAccessor ==
    \/ GetTopic
    \/ GetTitle
    \/ GetMembers
    \/ \E userID \in NotifyUsers : GetMember(userID)
    \/ GetSessionOwner
    \/ \E eventType \in LookupTypes, stateKey \in LookupKeys : CallGetStateEvent(eventType, stateKey)
    \/ \E eventType \in LookupTypes : CallGetStateEvents(eventType)

NextNotify ==
    \/ MarkRead
    \/ \E event \in NotifyEvents : UpdateState(event)
    \/ ReadAccessor

SpecNotify == InitAnyNotify /\ [][NextNotify]_vars

---------------------------------------------------------------------------
(* What the state table says, read without the caches. *)

\* The string a content field of the event at the type and state key holds:
\* "" for a missing event, a missing field and a value that is no string.
FieldOf(eventType, stateKey, field) ==
    IF eventType \in DOMAIN State /\ stateKey \in DOMAIN State[eventType]
    THEN AsString(ContentGet(State[eventType][stateKey].Content, field))
    ELSE ""

\* The users with a member event.
Known == IF "m.room.member" \in DOMAIN State THEN DOMAIN State["m.room.member"] ELSE {}

\* The users whose latest member event has a membership other than "leave".
Roster == {u \in Known : FieldOf("m.room.member", u, "membership") # "leave"}

\* The first entries, as strings, of the non-empty arrays of the aliases events.
FirstAliases ==
    IF "m.room.aliases" \in DOMAIN State
    THEN {AsString(AsArray(ContentGet(State["m.room.aliases"][k].Content, "aliases"))[1]) :
            k \in {j \in DOMAIN State["m.room.aliases"] :
                     Len(AsArray(ContentGet(State["m.room.aliases"][j].Content, "aliases"))) > 0}}
    ELSE {}

\* The titles the member-count rule allows for the roster.
FallbackTitles ==
    LET n == Cardinality(Roster)
        named == {FieldOf("m.room.member", u, "displayname") : u \in Roster \ {SessionUserID}}
    IN IF n <= 1 THEN {"Empty room"}
       ELSE IF n = 2 THEN named
       ELSE {d \o " and " \o ToString(n - 2) \o " others" : d \in named}

\* The room with every cache empty.
Uncached ==
    [ThisRoom EXCEPT !.nameCache = "", !.topicCache = "",
                     !.memberCache = EmptyMap, !.firstMemberCache = ""]

---------------------------------------------------------------------------
(* The claims. *)

\* C1: every derived cache (name, topic, member roster) is empty or equal to
\* a value its resolution algorithm yields on the current state table.
C1_CacheCoherence ==
    /\ nameCache = "" \/ \E room \in GetTitleResults(Uncached) : nameCache = room.nameCache
    /\ topicCache = "" \/ topicCache = GetTopicOf(Uncached).topicCache
    /\ memberCache = EmptyMap
       \/ \E room \in GetMembersResults(Uncached) : memberCache = room.memberCache

\* C2: on a room built by NewRoom at most one goroutine is between its
\* LockHistory and the end of its UnlockHistory, and the mutex is locked
\* exactly while one is.
C2_MutualExclusion ==
    LET holders == {c \in Contexts : pc[c] \in {"fetching", "unlock"}}
    IN /\ Cardinality(holders) <= 1
       /\ locked[fetchHistoryLock] = (holders # {})
       /\ ~fatal

C2_Witness ==
    \E c, d \in Contexts : pc[c] = "fetching" /\ pc[d] = "lock"

\* C3: with the name cache empty, GetTitle yields the name of the m.room.name
\* event, else the alias of the m.room.canonical_alias event, else the first
\* entry of the first non-empty aliases array met, else what the member-count
\* rule yields; a missing event or field, a value that is no string and an
\* empty string fall through to the next rule. A non-empty name of the
\* m.room.name event is the title whatever else the table holds.
C3_TitlePrecedence ==
    LET name == FieldOf("m.room.name", "", "name")
        alias == FieldOf("m.room.canonical_alias", "", "alias")
    IN /\ nameCache = "" =>
            \A ao \in AliasOrders(ThisRoom), mo \in MemberOrders(ThisRoom) :
                LET room == GetTitleOf(ThisRoom, ao, mo)
                IN IF name # "" THEN room.nameCache = name /\ ~room.panicked
                   ELSE IF alias # "" THEN room.nameCache = alias /\ ~room.panicked
                   ELSE \/ room.nameCache \in FirstAliases \ {""} /\ ~room.panicked
                        \/ /\ FirstAliases = {} \/ "" \in FirstAliases
                           /\ room = updateNameFromMembers(ThisRoom, mo)
       /\ name # "" =>
            \A room \in GetTitleResults(ThisRoom) : room.nameCache = name /\ ~room.panicked

C3_Witness ==
    /\ HasStateEvent(ThisRoom, "m.room.name", "")
    /\ ContentGet(GetStateEvent(ThisRoom, "m.room.name", "").Content, "name") = NumberValue
    /\ HasStateEvent(ThisRoom, "m.room.canonical_alias", "")
    /\ ContentGet(GetStateEvent(ThisRoom, "m.room.canonical_alias", "").Content, "alias")
         = StringValue("")
    /\ Roster # {}
    /\ nameCache = "#one:hs"

\* C4: with no usable name, canonical alias or aliases value, GetTitle returns
\* "Empty room" for a roster of 0 or 1, the display name of the other member
\* for a roster of 2, and "<name> and <N> others" with N the roster size less
\* 2 for a larger one, the named member being in the roster and not the
\* session user.
C4_MemberCountTitle ==
    (/\ FieldOf("m.room.name", "", "name") = ""
     /\ FieldOf("m.room.canonical_alias", "", "alias") = ""
     /\ FirstAliases \subseteq {""})
    => \A room \in GetTitleResults(ThisRoom) :
           ~room.panicked /\ room.nameCache \in FallbackTitles

\* C5: firstMemberCache is empty or names a user of memberCache other than
\* the session user.
C5_FirstMemberInCache ==
    \/ firstMemberCache = ""
    \/ firstMemberCache \in DOMAIN memberCache /\ firstMemberCache # SessionUserID

\* C6: no operation on the caches faults.
C6_NoFault == ~panicked

\* C8: GetMembers returns exactly the users whose latest member event has a
\* membership other than "leave", each with that membership; memberCache
\* holds no member who left; GetMember finds no user who left or has no
\* member event.
C8_RosterContent ==
    /\ \A u \in DOMAIN memberCache : memberCache[u].Membership # "leave"
    /\ \A room \in GetMembersResults(ThisRoom) :
          /\ DOMAIN room.memberCache = Roster
          /\ \A u \in Roster :
                /\ room.memberCache[u].UserID = u
                /\ room.memberCache[u].Membership = FieldOf("m.room.member", u, "membership")
    /\ \A room \in GetMemberResults(ThisRoom) :
          \A u \in RosterUsers \ Roster : u \notin DOMAIN room.memberCache

C8_Witness ==
    /\ Known \ Roster # {}
    /\ \E u, v, w \in DOMAIN memberCache :
          /\ memberCache[u].Membership = "ban"
          /\ memberCache[v].Membership = "knock"
          /\ memberCache[w].Membership = "invite"

LeaveEvent(u) ==
    NewEvent("m.room.member", u,
             [membership |-> StringValue("leave"),
              displayname |-> StringValue(DisplayNameOfUser(u))])

\* C9: when a user of memberCache leaves while a title from the member-count
\* rule is cached, the next GetMembers does not hold the user and the next
\* GetTitle returns the title of the reduced roster.
C9_LeaveTakesEffect ==
    [][\A u \in RosterUsers :
          (u \in DOMAIN memberCache /\ nameCache # "" /\ UpdateState(LeaveEvent(u)))
          => /\ \A room \in GetMembersResults(ThisRoom') : u \notin DOMAIN room.memberCache
             /\ \A room \in GetTitleResults(ThisRoom') :
                   ~room.panicked /\ room.nameCache \in FallbackTitles']_vars

\* C10: a second GetTitle returns what the first returned, and a second
\* GetTopic what the first returned, whatever orders the maps are walked in
\* and whatever GetTopic or GetMembers call comes between.
C10_ReadIdempotence ==
    /\ \A first \in GetTitleResults(ThisRoom) :
          ~first.panicked =>
             \A between \in {first, GetTopicOf(first)} \cup GetMembersResults(first) :
                \A second \in GetTitleResults(between) :
                   ~second.panicked /\ second.nameCache = first.nameCache
    /\ LET first == GetTopicOf(ThisRoom)
       IN \A between \in {first} \cup GetTitleResults(first) \cup GetMembersResults(first) :
             between.panicked \/ GetTopicOf(between).topicCache = first.topicCache

C10_Witness ==
    /\ nameCache = "#two:other"
    /\ "#one:hs" \in FirstAliases
    /\ topicCache = "Welcome"

ReleaseReturns(c) ==
    /\ pc'[c] = "idle"
    /\ ~fatal'
    /\ UNCHANGED <<fetchHistoryLock, locked>>

\* C7 as stated: UnlockHistory on a guard no goroutine holds returns, raises
\* no error and leaves the guard as it was.
C7_ReleaseUnheldIsNoOp ==
    [][\A c \in Callers :
          /\ (fetchHistoryLock = NilMutex
              /\ (UnlockHistoryCheck(c, "idle") \/ UnlockHistoryCheck(c, "fetching")))
             => ReleaseReturns(c)
          /\ (fetchHistoryLock # NilMutex /\ ~locked[fetchHistoryLock] /\ UnlockHistoryUnlock(c))
             => ReleaseReturns(c)]_vars

\* C7 as amended: UnlockHistory returns without effect when the guard was
\* never created (fetchHistoryLock is nil); on a guard that exists and is
\* not locked it does not return: the run-time's fatal error ends the
\* program, the guard still unlocked.
C7_ReleaseNilIsNoOp ==
    [][\A c \in Callers :
          /\ (fetchHistoryLock = NilMutex
              /\ (UnlockHistoryCheck(c, "idle") \/ UnlockHistoryCheck(c, "fetching")))
             => ReleaseReturns(c)
          /\ (fetchHistoryLock # NilMutex /\ ~locked[fetchHistoryLock] /\ UnlockHistoryUnlock(c))
             => fatal' /\ UNCHANGED <<fetchHistoryLock, locked>>]_vars

C7_Witness ==
    /\ fatal
    /\ fetchHistoryLock = NewRoomMutex
    /\ ~locked[NewRoomMutex]

\* What GetStateEvent returns for a type and state key: the event in a
\* one-element set, or the empty set for nil.
Lookup(room, eventType, stateKey) ==
    IF HasStateEvent(room, eventType, stateKey)
    THEN {GetStateEvent(room, eventType, stateKey)} ELSE {}

\* C11: UpdateState makes GetStateEvent return the event at the event's type
\* and state key and leaves what it returns at every other pair unchanged;
\* no other step changes what GetStateEvent returns; the new room holds no
\* event.
C11_ClobberSemantics ==
    [][/\ \A event \in FrameEvents :
             UpdateState(event) =>
                \A t \in FrameTypes, k \in FrameKeys :
                   Lookup(ThisRoom', t, k) =
                      IF t = event.Type /\ k = event.StateKey
                      THEN {event} ELSE Lookup(ThisRoom, t, k)
       /\ (\A event \in FrameEvents : ~UpdateState(event)) =>
             \A t \in FrameTypes, k \in FrameKeys :
                Lookup(ThisRoom', t, k) = Lookup(ThisRoom, t, k)]_vars

\* The hs aliases event was replaced after the title was taken from it, with
\* events of the same and of other types in the table.
C11_Witness ==
    /\ nameCache = "#one:hs"
    /\ Lookup(ThisRoom, "m.room.aliases", "hs")
         = AliasesEvents("hs", {ArrayValue(<<>>)})
    /\ Lookup(ThisRoom, "m.room.member", SessionUserID) # {}
    /\ Lookup(ThisRoom, "m.room.member", OtherUser(1)) # {}
    /\ Lookup(ThisRoom, "m.room.power_levels", "") # {}
    /\ Lookup(ThisRoom, "m.room.topic", "") = TopicEvents({NumberValue})

\* The event is in the table after the step.
Stored(event) == Lookup(ThisRoom', event.Type, event.StateKey) = {event}

ClearsTopicOnly ==
    /\ topicCache' = ""
    /\ UNCHANGED <<nameCache, memberCache, firstMemberCache>>

ClearsTitleOnly ==
    /\ nameCache' = ""
    /\ UNCHANGED <<topicCache, memberCache, firstMemberCache>>

ClearsMembersAndTitle ==
    /\ memberCache' = EmptyMap
    /\ firstMemberCache' = ""
    /\ nameCache' = ""
    /\ UNCHANGED topicCache

ClearsNothing == UNCHANGED <<topicCache, nameCache, memberCache, firstMemberCache>>

\* C15 as stated: a topic event clears the topic cache only, a name or
\* canonical alias event the title cache only, a member event the member
\* cache, the first member and the title cache; an event of any other type
\* changes no cache; the event is stored in every case.
C15_InvalidationFrame ==
    [][\A event \in FrameEvents :
          UpdateState(event) =>
             /\ Stored(event)
             /\ CASE event.Type = "m.room.topic" -> ClearsTopicOnly
                  [] event.Type \in {"m.room.name", "m.room.canonical_alias"} -> ClearsTitleOnly
                  [] event.Type = "m.room.member" -> ClearsMembersAndTitle
                  [] OTHER -> ClearsNothing]_vars

\* C15, amended: as above, but an m.room.alias event clears the title cache
\* only as well, and it is the events of the remaining types, m.room.aliases
\* among them, that change no cache.
C15_InvalidationFrameWithAlias ==
    [][\A event \in FrameEvents :
          UpdateState(event) =>
             /\ Stored(event)
             /\ CASE event.Type = "m.room.topic" -> ClearsTopicOnly
                  [] event.Type \in {"m.room.name", "m.room.canonical_alias", "m.room.alias"} ->
                        ClearsTitleOnly
                  [] event.Type = "m.room.member" -> ClearsMembersAndTitle
                  [] OTHER -> ClearsNothing]_vars

\* An m.room.alias event is in the table and the title cache is empty while
\* the topic and the members are cached.
C15_Witness ==
    /\ Lookup(ThisRoom, "m.room.alias", "") # {}
    /\ Lookup(ThisRoom, "m.room.name", "") = NameEvents({StringValue("Lobby")})
    /\ nameCache = ""
    /\ topicCache = "Welcome"
    /\ memberCache # EmptyMap
    /\ firstMemberCache # ""

\* C12: MarkRead sets UnreadMessages to 0 and Highlighted and HasNewMessages
\* to false whatever they held, and leaves PrevBatch, the state table, the
\* caches and the history mutex unchanged.
C12_MarkReadResets ==
    [][MarkRead =>
          /\ UnreadMessages' = 0
          /\ Highlighted' = FALSE
          /\ HasNewMessages' = FALSE
          /\ UNCHANGED <<PrevBatch, State, memberCache, firstMemberCache, nameCache,
                         topicCache, fetchHistoryLock, locked>>]_vars

\* The three fields are reset in a room that keeps its pagination token, its
\* events and its filled caches.
C12_Witness ==
    /\ UnreadMessages = 0 /\ ~Highlighted /\ ~HasNewMessages
    /\ PrevBatch = "s72_3"
    /\ topicCache = "Welcome"
    /\ nameCache = "Lobby"
    /\ DOMAIN memberCache = NotifyUsers

\* C17: GetStateEvent, GetStateEvents, GetTitle, GetTopic, GetMembers,
\* GetMember and GetSessionOwner leave the state table, the notification
\* fields and the history mutex unchanged, and a step that changes the table
\* is an UpdateState.
C17_ReadsLeaveTable ==
    [][/\ ReadAccessor =>
             UNCHANGED <<State, PrevBatch, UnreadMessages, Highlighted, HasNewMessages,
                         fetchHistoryLock, locked>>
       /\ State' # State => \E event \in NotifyEvents : UpdateState(event)]_vars

\* Every cache was filled by a read, in a room with events in its table,
\* unread highlighted messages and a pagination token.
C17_Witness ==
    /\ topicCache = "Welcome"
    /\ nameCache = "Alice"
    /\ DOMAIN memberCache = NotifyUsers
    /\ firstMemberCache = OtherUser(1)
    /\ UnreadMessages = MaxUnread /\ Highlighted /\ HasNewMessages
    /\ PrevBatch = "s72_3"

\* The goroutines between their LockHistory and the end of their
\* UnlockHistory.
Holders == {c \in Callers : pc[c] \in {"fetching", "unlock"}}

\* C13: two goroutines are past LockHistory at once only in a room whose
\* mutex NewRoom did not make and in which at least two goroutines each made
\* a mutex; with the mutex of NewRoom there is at most one.
C13_TwoHoldersOnlyLazily ==
    /\ Cardinality(Holders) >= 2 =>
          /\ NewRoomMutex \notin DOMAIN locked
          /\ Cardinality(DOMAIN locked) >= 2
    /\ NewRoomMutex \in DOMAIN locked => fetchHistoryLock = NewRoomMutex

\* Two goroutines found the field nil, each made and locked its own mutex,
\* and both are fetching.
C13_Witness ==
    \E c, d \in Callers :
        /\ c # d
        /\ pc[c] = "fetching" /\ pc[d] = "fetching"
        /\ DOMAIN locked = {c, d}
        /\ locked[c] /\ locked[d]

\* C16: on a room built by NewRoom, with goroutines that unlock after they
\* fetch and under fair scheduling, a goroutine waiting in the Lock of
\* LockHistory comes to hold the mutex; and while the mutex is locked a
\* goroutine waiting in Lock stays there.
C16_AcquireLiveness ==
    /\ \A c \in Contexts : (pc[c] = "lock") ~> (pc[c] = "fetching")
    /\ [][\A c \in Contexts :
             pc[c] = "lock" /\ locked[fetchHistoryLock] => pc'[c] = "lock"]_vars

\* Two goroutines wait in Lock while a third is inside UnlockHistory.
C16_Witness ==
    \E c, d, e \in Contexts :
        /\ c # d
        /\ pc[c] = "lock" /\ pc[d] = "lock"
        /\ pc[e] = "unlock"
        /\ locked[fetchHistoryLock]

\* UpdateState and GetTitle have both returned.
BothReturned == writing.at = "idle" /\ reading = "idle"

\* The title cache is empty or holds a title that updateNameCache yields on
\* the table as it is.
TitleFresh ==
    nameCache = "" \/ \E room \in GetTitleResults(Uncached) : nameCache = room.nameCache

\* C14, its last sentence: when the callers run UpdateState and GetTitle one
\* at a time, no state in which both have returned has a non-empty title
\* cache that differs from the title computed from the table.
C14_SerializedTitleFresh == serialized /\ BothReturned => TitleFresh

\* C14, its first sentence: without serialization both have returned and the
\* title cache holds the name of the m.room.name event that UpdateState
\* replaced, in a room no m.room.aliases event was applied to.
C14_Witness ==
    /\ ~serialized
    /\ BothReturned
    /\ nameCache = "Lobby"
    /\ Lookup(ThisRoom, "m.room.name", "") = NameEvents({StringValue("Plaza")})
    /\ Lookup(ThisRoom, "m.room.aliases", "hs") = {}

=============================================================================
